---- MODULE Spec2Model ----
(***************************************************************************)
(* A model of librustc_hir/hir.rs: the Crate aggregate (its four           *)
(* identifier-keyed maps, the lookups, the sequential and the parallel     *)
(* whole-crate visitation) and the pure operations on Body and Expr.       *)
(***************************************************************************)
EXTENDS Naturals, Integers, Sequences, FiniteSets, Bags, TLC

VARIABLES
    crate,      \* Crate: [items, trait_items, impl_items, bodies], each a map id -> node
    arrival,    \* history of lowering: the order in which the keys were inserted
    pc,         \* "idle" | "seq" | "par" | "aborted"
    pass,       \* the loop of visit_all_item_likes that is running (index in SeqPasses)
    cursor,     \* keys the running sequential loop has already yielded
    seqLog,     \* visitor invocations of the current/last visit_all_item_likes
    prevLog,    \* visitor invocations of the run right before it (NoLog when none)
    parDone,    \* per block of parallel!: keys par_for_each_in has handed out
    parVisits,  \* bag of visitor invocations of par_visit_all_item_likes
    parRan,     \* TRUE once a par_visit_all_item_likes has returned
    op,         \* the last pure operation or lookup called, with its argument
    ret,        \* what it returned
    input       \* the argument scenario of the pure operations

vars == <<crate, arrival, pc, pass, cursor, seqLog, prevLog, parDone, parVisits,
          parRan, op, ret, input>>

\* ------------------------------------------------------------------ bounds

MaxId == 2

HirIds == 1..MaxId

\* ------------------------------------------------------------ Crate (data)

MapNames == {"items", "trait_items", "impl_items", "bodies"}

\* The node lowering stores under key k of map m; every node carries its own id.
Node(m, k) ==
    CASE m = "items"       -> [type |-> "Item", hir_id |-> k]
      [] m = "trait_items" -> [type |-> "TraitItem", hir_id |-> k]
      [] m = "impl_items"  -> [type |-> "ImplItem", hir_id |-> k]
      [] m = "bodies"      -> [type |-> "Body", hir_id |-> k]

MapOver(m, keys) == [k \in keys |-> Node(m, k)]

Range(s) == {s[i] : i \in DOMAIN s}

Perms(S) == {s \in [1..Cardinality(S) -> S] : Range(s) = S}

IsAscending(s) == \A i \in DOMAIN s : \A j \in DOMAIN s : i < j => s[i] < s[j]

Min(S) == CHOOSE x \in S : \A y \in S : x <= y

\* In place of a log when no run has been made: no run logs this invocation.
NoLog == <<[method |-> "none", node |-> [type |-> "None", hir_id |-> 0]]>>
NoOp == [fn |-> "none"]
NoRet == [tag |-> "none"]
NoInput == [scenario |-> "none"]
NoParDone == [b \in {"items", "trait_items", "impl_items"} |-> {}]

Ascending(S) == CHOOSE s \in Perms(S) : IsAscending(s)

CrateOf(ki, kt, km, kb) ==
    [items |-> MapOver("items", ki),
     trait_items |-> MapOver("trait_items", kt),
     impl_items |-> MapOver("impl_items", km),
     bodies |-> MapOver("bodies", kb)]

\* Crates lowering can build: any key set per map, inserted in any order.
InitCrateAnyOrder ==
    \E ki \in SUBSET HirIds, kt \in SUBSET HirIds, km \in SUBSET HirIds :
      /\ crate = CrateOf(ki, kt, km, ki)
      /\ \E ai \in Perms(ki), at \in Perms(kt), am \in Perms(km) :
            arrival = [items |-> ai, trait_items |-> at, impl_items |-> am]

\* Any key set per map, bodies included (the insertion order is not looked at).
InitCrateAnyKeys ==
    \E ki \in SUBSET HirIds, kt \in SUBSET HirIds, km \in SUBSET HirIds,
       kb \in SUBSET HirIds :
      /\ crate = CrateOf(ki, kt, km, kb)
      /\ arrival = [items |-> Ascending(ki), trait_items |-> Ascending(kt),
                    impl_items |-> Ascending(km)]

\* Crates of every size per map, up to the order of their keys: the keys of a
\* map are 1..n, and every item has a body.
InitCrateDense ==
    \E ni \in 0..MaxId, nt \in 0..MaxId, nm \in 0..MaxId :
      /\ crate = CrateOf(1..ni, 1..nt, 1..nm, 1..ni)
      /\ arrival = [items |-> Ascending(1..ni), trait_items |-> Ascending(1..nt),
                    impl_items |-> Ascending(1..nm)]

InitRest ==
    /\ pc = "idle"
    /\ pass = 0
    /\ cursor = {}
    /\ seqLog = NoLog
    /\ prevLog = NoLog
    /\ parDone = NoParDone
    /\ parVisits = EmptyBag
    /\ parRan = FALSE
    /\ op = NoOp
    /\ ret = NoRet
    /\ input = NoInput

\* ---------------------------------------------- Crate::visit_all_item_likes

Invocation(method, node) == [method |-> method, node |-> node]

\* The loops run in another order: trait items first.
SeqPasses_TraitItemsFirst ==
    <<[map |-> "trait_items", method |-> "visit_trait_item"],
      [map |-> "items", method |-> "visit_item"],
      [map |-> "impl_items", method |-> "visit_impl_item"]>>

\* The three for loops, in program order: the map each iterates and the visitor
\* method its body calls.
SeqPasses ==
    <<[map |-> "items", method |-> "visit_item"],
      [map |-> "trait_items", method |-> "visit_trait_item"],
      [map |-> "impl_items", method |-> "visit_impl_item"]>>

SeqPass(p) == SeqPasses[p]

LastPass == Len(SeqPasses)

\* A hash-ordered map: iteration may yield any remaining key.
UnorderedIterNext(keys, yielded) == keys \ yielded

\* `for (_, x) in &map` over a BTreeMap: the next key is the least one not yet
\* yielded (a set with at most one element: empty when the loop is over).
BTreeIterNext(keys, yielded) ==
    IF keys \ yielded = {} THEN {} ELSE {Min(keys \ yielded)}

\* A traversal that consumes what it visits: the entry leaves its map.
CrateAfterVisit_Drained(m, k) ==
    [crate EXCEPT ![m] = [x \in DOMAIN crate[m] \ {k} |-> crate[m][x]]]

\* The Crate after the visitor was invoked on entry k of map m: the traversals
\* hold the Crate by shared reference and hand the visitor a shared reference.
CrateAfterVisit(m, k) == crate

StartSeq ==
    /\ pc = "idle"
    /\ pc' = "seq"
    /\ pass' = 1
    /\ cursor' = {}
    /\ prevLog' = seqLog
    /\ seqLog' = <<>>
    /\ UNCHANGED <<crate, arrival, parDone, parVisits, parRan, op, ret, input>>

\* One iteration of the running loop: the visitor is invoked on the next entry.
SeqVisit ==
    /\ pc = "seq"
    /\ \E k \in BTreeIterNext(DOMAIN crate[SeqPass(pass).map], cursor) :
          /\ seqLog' = Append(seqLog,
                 Invocation(SeqPass(pass).method, crate[SeqPass(pass).map][k]))
          /\ cursor' = cursor \cup {k}
          /\ crate' = CrateAfterVisit(SeqPass(pass).map, k)
    /\ UNCHANGED <<arrival, pc, pass, prevLog, parDone, parVisits, parRan,
                   op, ret, input>>

\* The running loop is over: the next loop starts, or the function returns.
SeqNextPass ==
    /\ pc = "seq"
    /\ BTreeIterNext(DOMAIN crate[SeqPass(pass).map], cursor) = {}
    /\ cursor' = {}
    /\ IF pass < LastPass
         THEN pass' = pass + 1 /\ pc' = pc
         ELSE pass' = 0 /\ pc' = "idle"
    /\ UNCHANGED <<crate, arrival, seqLog, prevLog, parDone, parVisits, parRan,
                   op, ret, input>>

\* ------------------------------------------ Crate::par_visit_all_item_likes

\* The worker threads of the pool that run the closures.
Tasks == {"t1", "t2"}

\* The block of trait items is missing.
ParBlocks_NoTraitItems == {"items", "impl_items"}

\* The blocks handed to parallel!, named by the map each one iterates.
ParBlocks == {"items", "trait_items", "impl_items"}

\* The third block repeats the second one.
ParBlock_SecondCopied(b) ==
    CASE b = "items"       -> [map |-> "items", method |-> "visit_item"]
      [] b = "trait_items" -> [map |-> "trait_items", method |-> "visit_trait_item"]
      [] b = "impl_items"  -> [map |-> "trait_items", method |-> "visit_trait_item"]

\* What each block does: the map it gives par_for_each_in and the visitor
\* method its closure calls.
ParBlock(b) ==
    CASE b = "items"       -> [map |-> "items", method |-> "visit_item"]
      [] b = "trait_items" -> [map |-> "trait_items", method |-> "visit_trait_item"]
      [] b = "impl_items"  -> [map |-> "impl_items", method |-> "visit_impl_item"]

\* par_for_each_in(collection, closure): the closure runs once on every element,
\* on any task and in no particular order; the elements it may run on next are
\* those no task has taken yet.
par_for_each_in(keys, taken) == keys \ taken

\* parallel!(b1, b2, b3): the blocks run concurrently, and the macro returns when
\* all of them have; the blocks that may take a step are all the unfinished ones.
parallel(blocks, finished) == blocks \ finished

\* Each block is a plain for loop over its map: keys in increasing order.
ParBlockNext_InKeyOrder(b) ==
    BTreeIterNext(DOMAIN crate[ParBlock(b).map], parDone[b])

\* The keys of block b's map on which its closure may run next.
ParBlockNext(b) == par_for_each_in(DOMAIN crate[ParBlock(b).map], parDone[b])

\* A block counts as finished before its closure has run on anything.
ParFinished_AtOnce == ParBlocks

ParFinished == {b \in ParBlocks : ParBlockNext(b) = {}}

StartPar ==
    /\ pc = "idle"
    /\ pc' = "par"
    /\ parDone' = NoParDone
    /\ parVisits' = EmptyBag
    /\ parRan' = FALSE
    /\ prevLog' = NoLog
    /\ UNCHANGED <<crate, arrival, pass, cursor, seqLog, op, ret, input>>

\* Task t runs block b's closure on entry k: one visitor invocation.
ParVisitEntry(t, b, k) ==
    /\ pc = "par"
    /\ b \in parallel(ParBlocks, ParFinished)
    /\ k \in ParBlockNext(b)
    /\ parDone' = [parDone EXCEPT ![b] = @ \cup {k}]
    /\ parVisits' = parVisits (+) SetToBag(
           {[method |-> ParBlock(b).method, node |-> crate[ParBlock(b).map][k],
             task |-> t]})
    /\ crate' = CrateAfterVisit(ParBlock(b).map, k)
    /\ UNCHANGED <<arrival, pc, pass, cursor, seqLog, prevLog, parRan, op, ret, input>>

ParVisit == \E t \in Tasks, b \in ParBlocks, k \in HirIds : ParVisitEntry(t, b, k)

\* parallel! returns: every block has finished.
ParReturn ==
    /\ pc = "par"
    /\ parallel(ParBlocks, ParFinished) = {}
    /\ pc' = "idle"
    /\ parRan' = TRUE
    /\ UNCHANGED <<crate, arrival, pass, cursor, seqLog, prevLog, parDone, parVisits,
                   op, ret, input>>

\* ---------------------------- Crate::item / trait_item / impl_item / body

Ok(v) == [tag |-> "ok", val |-> v]
Panic == [tag |-> "panic", val |-> "no entry found for key"]

\* `&map[&id]`: the entry stored under id, and a panic when there is none.
MapIndex(map, id) == IF id \in DOMAIN map THEN Ok(map[id]) ELSE Panic

\* The lookup reads another map of the Crate.
Crate_trait_item_OfImplItems(id) == MapIndex(crate.impl_items, id)

Crate_item(id) == MapIndex(crate.items, id)
Crate_trait_item(id) == MapIndex(crate.trait_items, id)
Crate_impl_item(id) == MapIndex(crate.impl_items, id)
Crate_body(id) == MapIndex(crate.bodies, id)

\* A call of one of the four lookups: it returns, or the panic ends the program.
Lookup(fn, r, id) ==
    /\ pc = "idle"
    /\ op' = [fn |-> fn, arg |-> id]
    /\ ret' = r
    /\ pc' = IF r.tag = "panic" THEN "aborted" ELSE "idle"
    /\ UNCHANGED <<crate, arrival, pass, cursor, seqLog, prevLog, parDone, parVisits,
                   parRan, input>>

CallItem == \E id \in HirIds : Lookup("item", Crate_item(id), id)
CallTraitItem == \E id \in HirIds : Lookup("trait_item", Crate_trait_item(id), id)
CallImplItem == \E id \in HirIds : Lookup("impl_item", Crate_impl_item(id), id)
CallBody == \E id \in HirIds : Lookup("body", Crate_body(id), id)

\* --------------------------------------------------------------- Expr, Body

MaxDepth == 2

ResLocal == [tag |-> "Local", def_kind |-> "-"]
ResErr == [tag |-> "Err", def_kind |-> "-"]
ResDef(k) == [tag |-> "Def", def_kind |-> k]

\* Res, as far as the code tells resolutions apart.
Resolutions == {ResLocal, ResErr, ResDef("Static"), ResDef("Fn"), ResDef("Const")}

\* ExprKind. The variants whose operand the operations below may look at carry
\* it; of the other variants only the tag is kept.
PathKinds ==
    {[tag |-> "Path", qpath |-> "Resolved", res |-> r] : r \in Resolutions}
      \cup {[tag |-> "Path", qpath |-> "TypeRelative", res |-> ResErr]}

LeafTags ==
    {"Box", "Array", "MethodCall", "Tup", "Binary", "Lit", "Cast", "Loop", "Match",
     "Closure", "Block", "Assign", "AssignOp", "AddrOf", "Break", "Continue", "Ret",
     "InlineAsm", "Struct", "Repeat", "Yield", "Err"}

LeafKinds == PathKinds \cup {[tag |-> t] : t \in LeafTags}

\* Type(e, _), DropTemps(e), Field(base, _), Index(base, _), Call(callee, _).
OperandTags == {"Type", "DropTemps", "Field", "Index", "Call"}

OperandKinds(e) ==
    {[tag |-> t, operand |-> e] : t \in OperandTags}
      \cup {[tag |-> "Unary", op |-> o, operand |-> e] : o \in {"UnDeref", "UnNot"}}

\* The expressions with at most d levels of operands, the root numbered h and
\* every operand one more than its parent (identifiers are unique in a tree).
RECURSIVE Exprs(_, _)
Exprs(d, h) ==
    {[hir_id |-> h, kind |-> k] : k \in LeafKinds}
      \cup (IF d = 0 THEN {}
            ELSE UNION {{[hir_id |-> h, kind |-> k] : k \in OperandKinds(e)} :
                          e \in Exprs(d - 1, h + 1)})

HasOperand(e) == e.kind.tag \in OperandTags \cup {"Unary"}

\* The expressions below e, nearest first.
RECURSIVE SubExprs(_)
SubExprs(e) ==
    IF HasOperand(e) THEN {e.kind.operand} \cup SubExprs(e.kind.operand) ELSE {}

\* Body: params (each with its hir_id), value, generator_kind.
Bodies ==
    {[params |-> ps, value |-> v, generator_kind |-> g] :
        ps \in {<<>>} \cup {<<[hir_id |-> h]>> : h \in HirIds},
        v \in UNION {Exprs(0, h) : h \in HirIds},
        g \in {"None", "Async", "Gen"}}

\* The identifier of the first parameter, when there is one.
Body_id_OfParam(b) ==
    [hir_id |-> IF b.params = <<>> THEN b.value.hir_id ELSE b.params[1].hir_id]

\* Body::id
Body_id(b) == [hir_id |-> b.value.hir_id]

\* Paths that failed to resolve are not places.
PlaceRes_NoErr(res) == res \in {ResLocal, ResDef("Static")}

\* DropTemps is classified as what it wraps.
InheritTags_WithDropTemps == {"Type", "DropTemps"}

\* Static items are not places.
PlaceRes_NoStatic(res) == res \in {ResLocal, ResErr}

\* The resolutions of a resolved path that make it a place.
PlaceRes(res) == res \in {ResLocal, ResDef("Static"), ResErr}

\* A call is classified as its callee.
InheritTags_WithCall == {"Type", "Call"}

\* The variants that inherit the classification of their operand.
InheritTags == {"Type"}

\* The variants of the last arm of the match, apart from TypeRelative paths.
NotPlaceTags ==
    {"Call", "MethodCall", "Struct", "Tup", "Match", "Closure", "Block", "Repeat",
     "Array", "Break", "Continue", "Ret", "Loop", "Assign", "InlineAsm", "AssignOp",
     "Lit", "Unary", "Box", "AddrOf", "Binary", "Yield", "Cast", "DropTemps", "Err"}

\* A base the predicate accepts is held against the projection.
Projection_Inverted(allowed, basePlace) == ~allowed \/ basePlace

\* The predicate is not consulted: a projection is classified as its base.
Projection_IgnoresPredicate(allowed, basePlace) == basePlace

\* The Field and Index arm: `allow_projections_from(base) || base.is_place_expr(..)`.
Projection(allowed, basePlace) == allowed \/ basePlace

\* Expr::is_place_expr; the predicate allow_projections_from is given as the set
\* of the expressions it accepts. The arms are tried in the order of the match.
RECURSIVE is_place_expr(_, _)
is_place_expr(e, allow) ==
    LET k == e.kind IN
    CASE k.tag = "Path" /\ k.qpath = "Resolved" -> PlaceRes(k.res)
      [] k.tag \in InheritTags -> is_place_expr(k.operand, allow)
      [] k.tag = "Unary" /\ k.op = "UnDeref" -> TRUE
      [] k.tag \in {"Field", "Index"} ->
            Projection(k.operand \in allow, is_place_expr(k.operand, allow))
      [] (k.tag = "Path" /\ k.qpath = "TypeRelative") \/ k.tag \in NotPlaceTags -> FALSE

\* The predicate is "the base is itself a place".
is_syntactic_place_expr_BaseIsPlace(e) == is_place_expr(e, {})

\* Expr::is_syntactic_place_expr: is_place_expr with the predicate `|_| true`,
\* the set of all expressions below e.
is_syntactic_place_expr(e) == is_place_expr(e, SubExprs(e))

\* Only the outermost wrapper is removed.
peel_drop_temps_Once(e) == IF e.kind.tag = "DropTemps" THEN e.kind.operand ELSE e

\* The loop stops one wrapper early: the innermost wrapper is returned.
RECURSIVE peel_drop_temps_KeepsLast(_)
peel_drop_temps_KeepsLast(e) ==
    IF e.kind.tag = "DropTemps" /\ e.kind.operand.kind.tag = "DropTemps"
      THEN peel_drop_temps_KeepsLast(e.kind.operand)
      ELSE e

\* Expr::peel_drop_temps: the while-let loop, one iteration per wrapper.
RECURSIVE peel_drop_temps(_)
peel_drop_temps(e) ==
    IF e.kind.tag = "DropTemps" THEN peel_drop_temps(e.kind.operand) ELSE e

\* A call of a function that takes &self and leaves everything as it is. A
\* behaviour holds one call: a further call would start from the same input.
Pure(fn, args, r) ==
    /\ op = NoOp
    /\ op' = [fn |-> fn, args |-> args]
    /\ ret' = r
    /\ UNCHANGED <<crate, arrival, pc, pass, cursor, seqLog, prevLog, parDone,
                   parVisits, parRan, input>>

CallBodyId ==
    /\ input.scenario = "body"
    /\ Pure("Body::id", <<>>, Body_id(input.body))

\* The caller supplies any predicate: any set of the expressions below expr.
CallIsPlaceExpr ==
    /\ input.scenario = "expr"
    /\ \E allow \in SUBSET SubExprs(input.expr) :
          Pure("is_place_expr", <<allow>>, is_place_expr(input.expr, allow))

CallIsSyntacticPlaceExpr ==
    /\ input.scenario = "expr"
    /\ Pure("is_syntactic_place_expr", <<>>, is_syntactic_place_expr(input.expr))

CallPeelDropTemps ==
    /\ input.scenario = "expr"
    /\ Pure("peel_drop_temps", <<>>, peel_drop_temps(input.expr))

\* ------------------------------------------------------------------- Pat

\* The largest number of patterns in one pattern tree.
MaxPatNodes == 4

\* PatKind variants without a subpattern (Binding(.., None) is built below).
PatLeafTags == {"Wild", "Lit", "Range", "Path"}

\* Slice(before, slice, after) for every way of cutting the subpatterns cs,
\* which are in source order, into the three parts.
SliceSplits(cs) ==
    UNION {{[tag |-> "Slice", before |-> SubSeq(cs, 1, i),
                              slice |-> SubSeq(cs, i + 1, j),
                              after |-> SubSeq(cs, j + 1, Len(cs))]
              : j \in {x \in {i, i + 1} : x <= Len(cs)}}
            : i \in 0..Len(cs)}

\* An or-pattern is built of any number of alternatives.
OrKinds_AnyLength(cs) == {[tag |-> "Or", pats |-> cs]}

\* PatKind::Or with the alternatives cs, as the HIR is built: an or-pattern has
\* at least two alternatives ("Invariant: pats.len() >= 2").
OrKinds(cs) == IF Len(cs) >= 2 THEN {[tag |-> "Or", pats |-> cs]} ELSE {}

\* Every PatKind whose subpatterns, in source order, are cs.
PatKinds(cs) ==
    (IF cs = <<>> THEN {[tag |-> t] : t \in PatLeafTags} ELSE {})
    \cup (IF Len(cs) <= 1 THEN {[tag |-> "Binding", sub |-> cs]} ELSE {})
    \cup (IF Len(cs) = 1 THEN {[tag |-> t, pat |-> cs[1]] : t \in {"Box", "Ref"}} ELSE {})
    \cup {[tag |-> "Struct", fields |-> [i \in 1..Len(cs) |-> [pat |-> cs[i]]]]}
    \cup {[tag |-> t, pats |-> cs] : t \in {"TupleStruct", "Tuple"}}
    \cup OrKinds(cs)
    \cup SliceSplits(cs)

\* Below the root two kinds for each number of subpatterns, to keep the set of
\* trees small.
PatKindsBelow(cs) ==
    CASE cs = <<>> -> {[tag |-> "Wild"], [tag |-> "Binding", sub |-> <<>>]}
      [] Len(cs) = 1 ->
            {[tag |-> "Box", pat |-> cs[1]],
             [tag |-> "Struct", fields |-> <<[pat |-> cs[1]]>>]}
      [] Len(cs) >= 2 ->
            {[tag |-> "Tuple", pats |-> cs],
             [tag |-> "Slice", before |-> SubSeq(cs, 1, 1), slice |-> SubSeq(cs, 2, 2),
                               after |-> SubSeq(cs, 3, Len(cs))]}

\* Pat trees of n patterns. The hir_id of a pattern is its position in the
\* source: the path of subpattern numbers that leads to it from the root.
RECURSIVE PatsOfSize(_, _, _)
RECURSIVE PatSeqs(_, _, _)
PatSeqs(n, path, i) ==
    IF n = 0 THEN {<<>>}
    ELSE UNION {{<<q>> \o rest : q \in PatsOfSize(k, Append(path, i), FALSE),
                                rest \in PatSeqs(n - k, path, i + 1)}
                 : k \in 1..n}

PatsOfSize(n, path, root) ==
    UNION {{[hir_id |-> path, kind |-> kd]
              : kd \in IF root THEN PatKinds(cs) ELSE PatKindsBelow(cs)}
            : cs \in PatSeqs(n - 1, path, 1)}

Pats == UNION {PatsOfSize(n, <<>>, TRUE) : n \in 1..MaxPatNodes}

\* The direct subpatterns a PatKind holds.
Subpatterns(q) ==
    LET k == q.kind IN
    CASE k.tag \in PatLeafTags -> {}
      [] k.tag = "Binding" -> Range(k.sub)
      [] k.tag \in {"Box", "Ref"} -> {k.pat}
      [] k.tag = "Struct" -> {f.pat : f \in Range(k.fields)}
      [] k.tag \in {"TupleStruct", "Tuple", "Or"} -> Range(k.pats)
      [] k.tag = "Slice" -> Range(k.before) \cup Range(k.slice) \cup Range(k.after)

RECURSIVE PatIds(_)
PatIds(q) == {q.hir_id} \cup UNION {PatIds(c) : c \in Subpatterns(q)}

\* A callback `it` is the set of the patterns it returns true for; the walks
\* return the patterns they called it on, in the order of the calls.
RECURSIVE walk_short_(_, _)

\* Every element is walked, whatever the earlier ones returned.
RECURSIVE IterAll_NoShortCircuit(_, _)
IterAll_NoShortCircuit(ps, it) ==
    IF ps = <<>> THEN [visited |-> <<>>, result |-> TRUE]
    ELSE LET h == walk_short_(Head(ps), it)
             t == IterAll_NoShortCircuit(Tail(ps), it)
         IN [visited |-> h.visited \o t.visited, result |-> h.result /\ t.result]

\* The iteration stops at the first true, as `any` does.
RECURSIVE IterAll_StopsAtTrue(_, _)
IterAll_StopsAtTrue(ps, it) ==
    IF ps = <<>> THEN [visited |-> <<>>, result |-> TRUE]
    ELSE LET h == walk_short_(Head(ps), it) IN
         IF h.result THEN h
         ELSE LET t == IterAll_StopsAtTrue(Tail(ps), it)
              IN [visited |-> h.visited \o t.visited, result |-> t.result]

\* `iter.all(|p| p.walk_short_(it))`: stops at the first false.
RECURSIVE IterAll(_, _)
IterAll(ps, it) ==
    IF ps = <<>> THEN [visited |-> <<>>, result |-> TRUE]
    ELSE LET h == walk_short_(Head(ps), it) IN
         IF ~h.result THEN h
         ELSE LET t == IterAll(Tail(ps), it)
              IN [visited |-> h.visited \o t.visited, result |-> t.result]

\* Pat::walk_short_
walk_short_(q, it) ==
    IF q.hir_id \notin it THEN [visited |-> <<q.hir_id>>, result |-> FALSE]
    ELSE LET k == q.kind
             r == CASE k.tag \in PatLeafTags \/ (k.tag = "Binding" /\ k.sub = <<>>) ->
                         [visited |-> <<>>, result |-> TRUE]
                    [] k.tag \in {"Box", "Ref"} -> walk_short_(k.pat, it)
                    [] k.tag = "Binding" /\ k.sub # <<>> -> walk_short_(k.sub[1], it)
                    [] k.tag = "Struct" ->
                         IterAll([i \in 1..Len(k.fields) |-> k.fields[i].pat], it)
                    [] k.tag \in {"TupleStruct", "Tuple", "Or"} -> IterAll(k.pats, it)
                    [] k.tag = "Slice" -> IterAll(k.before \o k.slice \o k.after, it)
         IN [visited |-> <<q.hir_id>> \o r.visited, result |-> r.result]

\* Pat::walk_short
walk_short(q, it) == walk_short_(q, it)

\* The walk is given up at the first false, as walk_short_ does.
walk__Aborting(q, it) == walk_short_(q, it).visited

RECURSIVE walk_(_, _)

\* `iter.for_each(|p| p.walk_(it))`
RECURSIVE ForEach(_, _)
ForEach(ps, it) ==
    IF ps = <<>> THEN <<>> ELSE walk_(Head(ps), it) \o ForEach(Tail(ps), it)

\* Pat::walk_
walk_(q, it) ==
    IF q.hir_id \notin it THEN <<q.hir_id>>
    ELSE LET k == q.kind IN
         <<q.hir_id>> \o
         CASE k.tag \in PatLeafTags \/ (k.tag = "Binding" /\ k.sub = <<>>) -> <<>>
           [] k.tag \in {"Box", "Ref"} -> walk_(k.pat, it)
           [] k.tag = "Binding" /\ k.sub # <<>> -> walk_(k.sub[1], it)
           [] k.tag = "Struct" -> ForEach([i \in 1..Len(k.fields) |-> k.fields[i].pat], it)
           [] k.tag \in {"TupleStruct", "Tuple", "Or"} -> ForEach(k.pats, it)
           [] k.tag = "Slice" -> ForEach(k.before \o k.slice \o k.after, it)

\* Pat::walk
walk(q, it) == walk_(q, it)

\* The closure handed to walk returns true for the root only.
walk_always_RootOnly(q) == walk(q, {q.hir_id})

\* Pat::walk_always: walk with the closure `|p| { it(p); true }`, so the calls
\* of `it` are the calls walk makes.
walk_always(q) == walk(q, PatIds(q))

CallWalkShort ==
    /\ input.scenario = "pat"
    /\ \E it \in SUBSET PatIds(input.pat) :
         Pure("walk_short", <<it>>, walk_short(input.pat, it))

CallWalk ==
    /\ input.scenario = "pat"
    /\ \E it \in SUBSET PatIds(input.pat) :
         Pure("walk", <<it>>, [visited |-> walk(input.pat, it)])

CallWalkAlways ==
    /\ input.scenario = "pat"
    /\ Pure("walk_always", <<>>, [visited |-> walk_always(input.pat)])

\* ------------------------------------------------------ is_range_literal

\* Strings are sequences of characters.
PathRoot == <<"{", "{", "r", "o", "o", "t", "}", "}">>
StrStd == <<"s", "t", "d">>
StrCore == <<"c", "o", "r", "e">>
StrAlloc == <<"a", "l", "l", "o", "c">>
StrOps == <<"o", "p", "s">>
StrCmp == <<"c", "m", "p">>
StrRange == <<"R", "a", "n", "g", "e">>
StrRangeInclusive == StrRange \o <<"I", "n", "c", "l", "u", "s", "i", "v", "e">>
StrRang == <<"R", "a", "n", "g">>
StrBound == <<"B", "o", "u", "n", "d">>
SymNew == <<"n", "e", "w">>
SymDefault == <<"d", "e", "f", "a", "u", "l", "t">>

starts_with(str, prefix) ==
    Len(str) >= Len(prefix) /\ SubSeq(str, 1, Len(prefix)) = prefix

ends_with(str, suffix) ==
    Len(str) >= Len(suffix) /\ SubSeq(str, Len(str) - Len(suffix) + 1, Len(str)) = suffix

\* Path, as far as its segments' identifiers: four segments of any mix of the
\* names below, a path of three and one of five.
RangePaths ==
    {[segments |-> <<a, b, c, d>>] :
        a \in {PathRoot, StrStd}, b \in {StrStd, StrCore, StrAlloc},
        c \in {StrOps, StrCmp}, d \in {StrRange, StrRangeInclusive, StrRang, StrBound}}
    \cup {[segments |-> <<PathRoot, StrCore, StrOps>>],
          [segments |-> <<PathRoot, StrCore, StrOps, StrRange, SymNew>>]}

\* QPath::Resolved(qself, path), qself being None or Some(ty).
ResolvedQPaths ==
    {[tag |-> "Resolved", qself |-> q, path |-> path] :
        q \in {"None", "Some"}, path \in RangePaths}

\* TyKind: a path, or another kind of type.
RangeTys ==
    {[kind |-> [tag |-> "Path", qpath |-> qp]] : qp \in ResolvedQPaths}
    \cup {[kind |-> [tag |-> "Tup"]],
          [kind |-> [tag |-> "Path",
                     qpath |-> [tag |-> "TypeRelative", ty |-> [kind |-> [tag |-> "Infer"]],
                                segment |-> [ident |-> StrRange]]]]}

\* QPath::TypeRelative(ty, segment)
TypeRelativeQPaths ==
    {[tag |-> "TypeRelative", ty |-> ty, segment |-> [ident |-> n]] :
        ty \in RangeTys, n \in {SymNew, SymDefault}}

ARangePath == [segments |-> <<PathRoot, StrCore, StrOps, StrRangeInclusive>>]
AResolvedQPath == [tag |-> "Resolved", qself |-> "None", path |-> ARangePath]
ATypeRelativeQPath ==
    [tag |-> "TypeRelative", ty |-> [kind |-> [tag |-> "Path", qpath |-> AResolvedQPath]],
     segment |-> [ident |-> SymNew]]

\* The callee of a Call: a path, or a field of something.
RangeFuncs ==
    {[kind |-> [tag |-> "Path", qpath |-> qp]] : qp \in TypeRelativeQPaths \cup {AResolvedQPath}}
    \cup {[kind |-> [tag |-> "Field"]]}

\* ExprKind, with what is_range_literal reads of it.
RangeExprKinds ==
    {[tag |-> t, qpath |-> qp] :
        t \in {"Struct", "Path"}, qp \in ResolvedQPaths \cup {ATypeRelativeQPath}}
    \cup {[tag |-> "Call", func |-> f] : f \in RangeFuncs}
    \cup {[tag |-> t] : t \in (LeafTags \cup OperandTags \cup {"Unary"}) \ {"Struct", "Call"}}

\* What sm.span_to_snippet(sm.end_point(expr.span)) returns: the last character
\* of the source of the expression, or an error when the source is not at hand.
Snippets ==
    {[tag |-> "Ok", val |-> <<c>>] : c \in {"}", ")", "5", "."}} \cup {[tag |-> "Err"]}

\* The root segment is not looked at.
is_range_path_AnyRoot(path) ==
    LET segs == path.segments IN
    IF Len(segs) = 4 /\ segs[3] = StrOps
      THEN (segs[2] = StrStd \/ segs[2] = StrCore) /\ starts_with(segs[4], StrRange)
      ELSE FALSE

\* is_range_literal::is_range_path
is_range_path(path) ==
    LET segs == path.segments IN
    IF Len(segs) = 4 /\ segs[1] = PathRoot /\ segs[3] = StrOps
      THEN (segs[2] = StrStd \/ segs[2] = StrCore) /\ starts_with(segs[4], StrRange)
      ELSE FALSE

\* A span without a snippet counts as a literal.
is_lit_ErrIsLit(snippet) ==
    IF snippet.tag = "Ok"
      THEN ~(ends_with(snippet.val, <<"}">>) \/ ends_with(snippet.val, <<")">>))
      ELSE TRUE

\* is_range_literal::is_lit, on the snippet of the end point of the span.
is_lit(snippet) ==
    IF snippet.tag = "Ok"
      THEN ~(ends_with(snippet.val, <<"}">>) \/ ends_with(snippet.val, <<")">>))
      ELSE FALSE

is_range_literal(snippet, expr) ==
    LET k == expr.kind IN
    CASE k.tag = "Struct" /\ k.qpath.tag = "Resolved" /\ k.qpath.qself = "None" ->
           is_range_path(k.qpath.path) /\ is_lit(snippet)
      [] k.tag = "Path" /\ k.qpath.tag = "Resolved" /\ k.qpath.qself = "None" ->
           is_range_path(k.qpath.path) /\ is_lit(snippet)
      [] /\ k.tag = "Call"
         /\ k.func.kind.tag = "Path"
         /\ k.func.kind.qpath.tag = "TypeRelative"
         /\ k.func.kind.qpath.ty.kind.tag = "Path"
         /\ k.func.kind.qpath.ty.kind.qpath.tag = "Resolved"
         /\ k.func.kind.qpath.ty.kind.qpath.qself = "None" ->
           /\ is_range_path(k.func.kind.qpath.ty.kind.qpath.path)
           /\ is_lit(snippet)
           /\ k.func.kind.qpath.segment.ident = SymNew
      [] OTHER -> FALSE

CallIsRangeLiteral ==
    /\ input.scenario = "range"
    /\ Pure("is_range_literal", <<>>, is_range_literal(input.snippet, input.expr))

\* ------------------------------------------------------------ GenericArgs

\* The largest number of arguments in one GenericArgs.
MaxArgs == 3

TyPath(h) == [hir_id |-> h, kind |-> [tag |-> "Path"]]
TyTup(tys) == [hir_id |-> 0, kind |-> [tag |-> "Tup", tys |-> tys]]

\* GenericArg: a lifetime, a type (a tuple of zero to two types, or a path)
\* or a const.
GenericArgKinds ==
    {[tag |-> "Lifetime"], [tag |-> "Const"], [tag |-> "Type", ty |-> TyPath(0)]}
    \cup {[tag |-> "Type", ty |-> TyTup(tys)] :
            tys \in {<<>>, <<TyPath(1)>>, <<TyPath(1), TyPath(2)>>}}

\* GenericArgs { args, bindings, parenthesized }
AllGenericArgs ==
    {[args |-> a, bindings |-> b, parenthesized |-> par] :
        a \in UNION {[1..n -> GenericArgKinds] : n \in 0..MaxArgs},
        b \in {<<>>, <<[ident |-> "Output"]>>},
        par \in BOOLEAN}

InputsPanic == [tag |-> "panic", val |-> "GenericArgs::inputs: not a Fn(T) -> U"]

\* The `for arg in self.args` loop of inputs, from the first of args on; leaving
\* the loop leads to the panic after it.
RECURSIVE InputsLoop(_)
InputsLoop(args) ==
    IF args = <<>> THEN InputsPanic
    ELSE LET arg == Head(args) IN
         CASE arg.tag = "Lifetime" -> InputsLoop(Tail(args))
           [] arg.tag = "Type" ->
                IF arg.ty.kind.tag = "Tup" THEN Ok(arg.ty.kind.tys) ELSE InputsPanic
           [] arg.tag = "Const" -> InputsLoop(Tail(args))

\* `parenthesized` is not looked at.
inputs_IgnoresParenthesized(ga) == InputsLoop(ga.args)

\* GenericArgs::inputs
inputs(ga) == IF ga.parenthesized THEN InputsLoop(ga.args) ELSE InputsPanic

\* Const arguments are counted as types.
RECURSIVE CountLoop_ConstAsType(_, _)
CountLoop_ConstAsType(args, counts) ==
    IF args = <<>> THEN counts
    ELSE LET arg == Head(args) IN
         CountLoop_ConstAsType(Tail(args),
           CASE arg.tag = "Lifetime" -> [counts EXCEPT !.lifetimes = @ + 1]
             [] arg.tag = "Type" -> [counts EXCEPT !.types = @ + 1]
             [] arg.tag = "Const" -> [counts EXCEPT !.types = @ + 1])

\* The `for arg in self.args` loop of own_counts.
RECURSIVE CountLoop(_, _)
CountLoop(args, counts) ==
    IF args = <<>> THEN counts
    ELSE LET arg == Head(args) IN
         CountLoop(Tail(args),
           CASE arg.tag = "Lifetime" -> [counts EXCEPT !.lifetimes = @ + 1]
             [] arg.tag = "Type" -> [counts EXCEPT !.types = @ + 1]
             [] arg.tag = "Const" -> [counts EXCEPT !.consts = @ + 1])

\* GenericParamCount::default()
GenericParamCountDefault == [lifetimes |-> 0, types |-> 0, consts |-> 0]

\* GenericArgs::own_counts
own_counts(ga) == CountLoop(ga.args, GenericParamCountDefault)

CallOwnCounts ==
    /\ input.scenario = "generic_args"
    /\ Pure("own_counts", <<>>, own_counts(input.generic_args))

CallInputs ==
    /\ input.scenario = "generic_args"
    /\ Pure("inputs", <<>>, inputs(input.generic_args))

\* ------------------------------------------------- ItemKind and TraitRef

\* Generics, as far as its parameters.
AllGenerics == {[params |-> ps] : ps \in {<<>>, <<"T">>, <<"T", "U">>}}

\* ItemKind: the variants that hold a Generics carry it in `generics`;
\* OpaqueTy holds it in its OpaqueTy struct, next to impl_trait_fn.
ItemKinds ==
    {[tag |-> t] :
        t \in {"ExternCrate", "Use", "Static", "Const", "Mod", "ForeignMod", "GlobalAsm"}}
    \cup {[tag |-> t, generics |-> g] :
            t \in {"Fn", "TyAlias", "Enum", "Struct", "Union", "Trait", "TraitAlias", "Impl"},
            g \in AllGenerics}
    \cup {[tag |-> "OpaqueTy", generics |-> g, impl_trait_fn |-> f] :
            g \in AllGenerics, f \in {"None", "Some"}}

Some(v) == [tag |-> "Some", val |-> v]
None == [tag |-> "None"]

\* ItemKind::generics
ItemKind_generics(k) ==
    CASE k.tag \in {"Fn", "TyAlias", "Enum", "Struct", "Union", "Trait", "Impl"} ->
           Some(k.generics)
      [] k.tag = "OpaqueTy" /\ k.impl_trait_fn = "None" -> Some(k.generics)
      [] OTHER -> None

CallItemKindGenerics ==
    /\ input.scenario = "item_kind"
    /\ Pure("generics", <<>>, ItemKind_generics(input.kind))

DefIds == 1..MaxId

\* Res, with the DefId a Res::Def holds.
ResDefId(k, did) == [tag |-> "Def", def_kind |-> k, did |-> did]

TraitRefs ==
    {[path |-> [res |-> r]] :
        r \in {ResLocal, ResErr}
              \cup {ResDefId(k, did) :
                      k \in {"Trait", "TraitAlias", "Struct", "TyAlias"}, did \in DefIds}}

\* `FatalError.raise()` and `unreachable!()`: the call does not return.
FatalErrorRaised == [tag |-> "fatal", val |-> "FatalError"]
Unreachable == [tag |-> "panic", val |-> "internal error: entered unreachable code"]

\* A DefId is made up for a path that did not resolve.
trait_def_id_ErrRecovers(tr) ==
    LET res == tr.path.res IN
    CASE res.tag = "Def" /\ res.def_kind \in {"Trait", "TraitAlias"} -> Ok(res.did)
      [] res.tag = "Err" -> Ok(0)
      [] OTHER -> Unreachable

\* TraitRef::trait_def_id
trait_def_id(tr) ==
    LET res == tr.path.res IN
    CASE res.tag = "Def" /\ res.def_kind = "Trait" -> Ok(res.did)
      [] res.tag = "Def" /\ res.def_kind = "TraitAlias" -> Ok(res.did)
      [] res.tag = "Err" -> FatalErrorRaised
      [] OTHER -> Unreachable

CallTraitDefId ==
    /\ input.scenario = "trait_ref"
    /\ Pure("trait_def_id", <<>>, trait_def_id(input.trait_ref))

\* ---------------------------------------------------------- specifications

\* Sequential visitation of any crate, built in any insertion order.
Init == InitCrateAnyOrder /\ InitRest

Next == StartSeq \/ SeqVisit \/ SeqNextPass

Spec == Init /\ [][Next]_vars

\* Sequential and parallel visitation of any crate.
InitPar == InitCrateDense /\ InitRest

NextPar == StartSeq \/ SeqVisit \/ SeqNextPass \/ StartPar \/ ParVisit \/ ParReturn

SpecPar == InitPar /\ [][NextPar]_vars

\* The parallel traversal alone, with tasks that are scheduled fairly and a
\* visitor whose every invocation returns: a step that stays possible is taken.
NextParFair == StartPar \/ ParVisit \/ ParReturn

SpecParFair ==
    /\ InitPar
    /\ [][NextParFair]_vars
    /\ WF_vars(ParVisit)
    /\ WF_vars(ParReturn)

\* The lookups by identifier, on any crate.
InitLookup == InitCrateAnyKeys /\ InitRest

NextLookup == CallItem \/ CallTraitItem \/ CallImplItem \/ CallBody

SpecLookup == InitLookup /\ [][NextLookup]_vars

\* The operations on one Body or one Expr, called on any of them.
EmptyCrate == CrateOf({}, {}, {}, {})

InitPure ==
    /\ crate = EmptyCrate
    /\ arrival = [items |-> <<>>, trait_items |-> <<>>, impl_items |-> <<>>]
    /\ pc = "idle" /\ pass = 0 /\ cursor = {}
    /\ seqLog = NoLog /\ prevLog = NoLog
    /\ parDone = NoParDone /\ parVisits = EmptyBag /\ parRan = FALSE
    /\ op = NoOp /\ ret = NoRet
    /\ \/ \E b \in Bodies : input = [scenario |-> "body", body |-> b]
       \/ \E e \in Exprs(MaxDepth, 1) : input = [scenario |-> "expr", expr |-> e]
       \/ \E q \in Pats : input = [scenario |-> "pat", pat |-> q]
       \/ \E k \in RangeExprKinds, sn \in Snippets :
            input = [scenario |-> "range", expr |-> [hir_id |-> 1, kind |-> k],
                     snippet |-> sn]
       \/ \E ga \in AllGenericArgs : input = [scenario |-> "generic_args", generic_args |-> ga]
       \/ \E k \in ItemKinds : input = [scenario |-> "item_kind", kind |-> k]
       \/ \E tr \in TraitRefs : input = [scenario |-> "trait_ref", trait_ref |-> tr]

NextPure ==
    \/ CallBodyId
    \/ CallIsPlaceExpr
    \/ CallIsSyntacticPlaceExpr
    \/ CallPeelDropTemps
    \/ CallWalkShort
    \/ CallWalk
    \/ CallWalkAlways
    \/ CallIsRangeLiteral
    \/ CallOwnCounts
    \/ CallInputs
    \/ CallItemKindGenerics
    \/ CallTraitDefId

SpecPure == InitPure /\ [][NextPure]_vars

\* ------------------------------------------------------------- properties

TypeRank(type) ==
    CASE type = "Item" -> 1 [] type = "TraitItem" -> 2 [] type = "ImplItem" -> 3

LookupMap(fn) ==
    CASE fn = "item" -> "items" [] fn = "trait_item" -> "trait_items"
      [] fn = "impl_item" -> "impl_items" [] fn = "body" -> "bodies"

MethodFor(type) ==
    CASE type = "Item"      -> "visit_item"
      [] type = "TraitItem" -> "visit_trait_item"
      [] type = "ImplItem"  -> "visit_impl_item"

Entries(m) == {crate[m][k] : k \in DOMAIN crate[m]}

AllEntries == Entries("items") \cup Entries("trait_items") \cup Entries("impl_items")

ParInvocations == {Invocation(v.method, v.node) : v \in BagToSet(parVisits)}

EveryMapHasTwo ==
    \A m \in {"items", "trait_items", "impl_items"} : Cardinality(DOMAIN crate[m]) >= 2

\* C1: visit_all_item_likes invokes the visitor on the items, then on the trait
\* items, then on the impl items, each group in increasing identifier order and
\* each node through the method of its kind; when it returns, every entry of
\* the three maps has been visited. This holds for every insertion order.
C1_SeqOrder ==
    seqLog # NoLog =>
      /\ \A i \in DOMAIN seqLog : seqLog[i].method = MethodFor(seqLog[i].node.type)
      /\ \A i \in DOMAIN seqLog : \A j \in DOMAIN seqLog : i < j =>
            \/ TypeRank(seqLog[i].node.type) < TypeRank(seqLog[j].node.type)
            \/ /\ seqLog[i].node.type = seqLog[j].node.type
               /\ seqLog[i].node.hir_id < seqLog[j].node.hir_id
      /\ pc = "idle" => {seqLog[i].node : i \in DOMAIN seqLog} = AllEntries

\* A finished run over a crate whose maps were all filled in decreasing key order.
C1_Witness ==
    /\ pc = "idle"
    /\ seqLog # NoLog
    /\ EveryMapHasTwo
    /\ \A m \in {"items", "trait_items", "impl_items"} : ~IsAscending(arrival[m])

\* C2: when par_visit_all_item_likes has returned, the visitor invocations it
\* made (method and node) are, as a set, those of visit_all_item_likes on the
\* same crate; every node went to the visitor method of its own kind.
C2_ParSameSet ==
    /\ \A v \in BagToSet(parVisits) : v.method = MethodFor(v.node.type)
    /\ (parRan /\ pc = "idle" /\ seqLog # NoLog) => ParInvocations = Range(seqLog)

\* Both traversals have run over a crate with two entries in every map.
C2_Witness ==
    /\ parRan
    /\ pc = "idle"
    /\ seqLog # NoLog
    /\ EveryMapHasTwo
    /\ Cardinality(ParInvocations) = Len(seqLog)

\* C3: in par_visit_all_item_likes no entry is visited twice or by two tasks
\* (at any moment of any interleaving), and none is skipped: when the call has
\* returned every entry of the three maps has exactly one invocation.
C3_ParExactlyOnce ==
    /\ \A v \in BagToSet(parVisits) :
          /\ CopiesIn(v, parVisits) = 1
          /\ \A w \in BagToSet(parVisits) : w.node = v.node => w = v
    /\ parRan => \A e \in AllEntries : \E v \in BagToSet(parVisits) : v.node = e

\* A finished parallel run in which both tasks visited entries of the same map.
C3_Witness ==
    /\ parRan
    /\ EveryMapHasTwo
    /\ \E v \in BagToSet(parVisits) : \E w \in BagToSet(parVisits) :
          v.node.type = w.node.type /\ v.task # w.task

\* C4: a visit_all_item_likes that follows another one on the same crate makes
\* the same visitor invocations in the same order.
C4_SeqDeterministic ==
    (pc = "idle" /\ prevLog # NoLog) => seqLog = prevLog

\* Two runs in a row have finished, over a crate with two entries in every map.
C4_Witness ==
    /\ pc = "idle"
    /\ prevLog # NoLog
    /\ seqLog # NoLog
    /\ EveryMapHasTwo

\* C5: no step of visit_all_item_likes or par_visit_all_item_likes changes the
\* Crate: items, trait_items, impl_items and bodies keep their keys and values.
C5_CrateUnchanged == [][crate' = crate]_vars

\* In the middle of a parallel run, after a sequential one, with bodies stored.
C5_Witness ==
    /\ pc = "par"
    /\ BagCardinality(parVisits) >= 2
    /\ \E b \in ParBlocks : ParBlockNext(b) # {}
    /\ seqLog # NoLog
    /\ Len(seqLog) >= 2
    /\ DOMAIN crate.bodies # {}

\* C6: during par_visit_all_item_likes nothing orders the visitor invocations:
\* every entry not yet visited, of whichever map and with whichever key, can be
\* the next one visited, and by any task.
C6_ParUnordered ==
    pc = "par" =>
      \A b \in ParBlocks : \A k \in DOMAIN crate[b] \ parDone[b] : \A t \in Tasks :
          ENABLED ParVisitEntry(t, b, k)

\* A trait item and an impl item have been visited before any item, and each
\* while an entry of its own map with a smaller key is still to be visited.
C6_Witness ==
    /\ pc = "par"
    /\ DOMAIN crate.items # {}
    /\ parDone.items = {}
    /\ \A m \in {"trait_items", "impl_items"} :
          \E k \in parDone[m] : \E j \in DOMAIN crate[m] \ parDone[m] : j < k

\* C7: item, trait_item, impl_item and body return the entry stored under the
\* identifier when their map has one; when it has none the call panics, which
\* ends the program (nothing is returned); the Crate is never changed.
C7_LookupOrPanic ==
    /\ [](op.fn \in {"item", "trait_item", "impl_item", "body"} =>
            LET map == crate[LookupMap(op.fn)] IN
            IF op.arg \in DOMAIN map
              THEN ret = Ok(map[op.arg]) /\ pc = "idle"
              ELSE ret.tag = "panic" /\ pc = "aborted" /\ ~ENABLED NextLookup)
    /\ [][crate' = crate]_vars

\* A lookup of an absent trait item, in a crate whose other maps hold that key.
C7_Witness ==
    /\ pc = "aborted"
    /\ op.fn = "trait_item"
    /\ op.arg \in DOMAIN crate.items \cap DOMAIN crate.impl_items
    /\ DOMAIN crate.trait_items # {}

\* C8: Body::id returns the BodyId whose hir_id is that of the body's value.
C8_BodyIdIsValueId ==
    op.fn = "Body::id" => ret.hir_id = input.body.value.hir_id

\* id() was called on a body whose parameter has another identifier.
C8_Witness ==
    /\ op.fn = "Body::id"
    /\ input.body.params # <<>>
    /\ input.body.params[1].hir_id # input.body.value.hir_id

C9Tags ==
    {"Call", "MethodCall", "Lit", "Struct", "Closure", "Match", "Loop", "Block",
     "Break", "Continue", "Ret", "Yield"}

\* C9: is_place_expr returns false for a call, a method call, a literal, a
\* struct literal, a closure and the control-flow expressions, whatever the
\* predicate accepts.
C9_NotPlace ==
    (op.fn = "is_place_expr" /\ input.expr.kind.tag \in C9Tags) => ret = FALSE

\* A call of a local variable: the callee is a place and the predicate accepts it.
C9_Witness ==
    /\ op.fn = "is_place_expr"
    /\ input.expr.kind.tag = "Call"
    /\ input.expr.kind.operand.kind = [tag |-> "Path", qpath |-> "Resolved", res |-> ResLocal]
    /\ input.expr.kind.operand \in op.args[1]
    /\ ret = FALSE

IsResolvedPathTo(e, rs) ==
    e.kind.tag = "Path" /\ e.kind.qpath = "Resolved" /\ e.kind.res \in rs

IsDeref(e) == e.kind.tag = "Unary" /\ e.kind.op = "UnDeref"

\* C10: is_place_expr returns true for a resolved path to a local variable or
\* to a static item and for a dereference of any operand, whatever the
\* predicate accepts.
C10_Place ==
    (/\ op.fn = "is_place_expr"
     /\ \/ IsResolvedPathTo(input.expr, {ResLocal, ResDef("Static")})
        \/ IsDeref(input.expr))
      => ret = TRUE

\* A dereference of a call, which no predicate accepts and which is no place.
C10_Witness ==
    /\ op.fn = "is_place_expr"
    /\ IsDeref(input.expr)
    /\ input.expr.kind.operand.kind.tag = "Call"
    /\ op.args[1] = {}
    /\ ret = TRUE

IsProjection(e) == e.kind.tag \in {"Field", "Index"}

\* C11: for a field access or an index expression with base b, is_place_expr
\* with predicate p returns p(b) OR is_place_expr(b, p); when p rejects b the
\* projection is a place exactly when b is one.
C11_ProjectionDefersToPredicate ==
    (op.fn = "is_place_expr" /\ IsProjection(input.expr)) =>
      LET b == input.expr.kind.operand
          p == op.args[1]
      IN /\ ret = (b \in p \/ is_place_expr(b, p))
         /\ b \in p => ret = TRUE
         /\ b \notin p => ret = is_place_expr(b, p)

\* A field of a call result: the base is no place, the predicate accepts it.
C11_Witness ==
    /\ op.fn = "is_place_expr"
    /\ input.expr.kind.tag = "Field"
    /\ input.expr.kind.operand.kind.tag = "Call"
    /\ input.expr.kind.operand \in op.args[1]
    /\ ~is_place_expr(input.expr.kind.operand, op.args[1])
    /\ ret = TRUE

\* C12 as stated: under is_syntactic_place_expr a field or index projection is
\* a place exactly when its base is itself a place.
C12_Original ==
    (op.fn = "is_syntactic_place_expr" /\ IsProjection(input.expr)) =>
      ret = is_syntactic_place_expr(input.expr.kind.operand)

\* C12, amended: the predicate of is_syntactic_place_expr accepts every base,
\* so every field or index projection is a place, x.field with x a local
\* variable among them.
C12_SyntacticAcceptsEveryBase ==
    (op.fn = "is_syntactic_place_expr" /\ IsProjection(input.expr)) => ret = TRUE

\* x.field with x a local variable.
C12_Witness ==
    /\ op.fn = "is_syntactic_place_expr"
    /\ input.expr.kind.tag = "Field"
    /\ input.expr.kind.operand.kind = [tag |-> "Path", qpath |-> "Resolved", res |-> ResLocal]
    /\ ret = TRUE

IsErrPlaceholder(e) == e.kind.tag = "Err" \/ IsResolvedPathTo(e, {ResErr})

\* C13 as stated: is_place_expr returns true for an expression of kind Err and
\* for a resolved path whose resolution is Res::Err.
C13_Original ==
    (op.fn = "is_place_expr" /\ IsErrPlaceholder(input.expr)) => ret = TRUE

\* C13, amended: is_place_expr returns true for a resolved path whose
\* resolution is Res::Err, and false for an expression of kind ExprKind::Err.
C13_ErrPathIsPlace ==
    op.fn = "is_place_expr" =>
      /\ IsResolvedPathTo(input.expr, {ResErr}) => ret = TRUE
      /\ input.expr.kind.tag = "Err" => ret = FALSE

\* is_place_expr was called on a path that resolved to Res::Err.
C13_Witness ==
    /\ op.fn = "is_place_expr"
    /\ IsResolvedPathTo(input.expr, {ResErr})
    /\ ret = TRUE

\* An expression and everything below it.
Chain(e) == {e} \cup SubExprs(e)

\* C14: peel_drop_temps returns the first expression under the DropTemps
\* wrappers that is not one: everything above the result is a DropTemps wrapper
\* and the result is not; with no wrapper the expression itself is returned.
C14_PeelReturnsInnermost ==
    op.fn = "peel_drop_temps" =>
      /\ ret \in Chain(input.expr)
      /\ ret.kind.tag # "DropTemps"
      /\ \A x \in Chain(input.expr) : x.hir_id < ret.hir_id => x.kind.tag = "DropTemps"
      /\ input.expr.kind.tag # "DropTemps" => ret = input.expr

\* Two nested wrappers around a local variable were peeled.
C14_Witness ==
    /\ op.fn = "peel_drop_temps"
    /\ input.expr.kind.tag = "DropTemps"
    /\ input.expr.kind.operand.kind.tag = "DropTemps"
    /\ ret = input.expr.kind.operand.kind.operand
    /\ IsResolvedPathTo(ret, {ResLocal})

\* C15: the result of peel_drop_temps is never a DropTemps wrapper, and peeling
\* it again returns the same expression.
C15_PeelIdempotent ==
    op.fn = "peel_drop_temps" =>
      /\ ret.kind.tag # "DropTemps"
      /\ peel_drop_temps(ret) = ret

\* A wrapped expression was peeled: the result differs from the argument.
C15_Witness ==
    /\ op.fn = "peel_drop_temps"
    /\ input.expr.kind.tag = "DropTemps"
    /\ ret # input.expr
    /\ peel_drop_temps(ret) = ret

\* Source order of two positions: a pattern comes before its subpatterns, and
\* an earlier sibling with everything in it before a later one.
Before(a, b) ==
    /\ a # b
    /\ \/ Len(a) < Len(b) /\ SubSeq(b, 1, Len(a)) = a
       \/ \E i \in 1..Min({Len(a), Len(b)}) :
            /\ SubSeq(a, 1, i - 1) = SubSeq(b, 1, i - 1)
            /\ a[i] < b[i]

InSourceOrder(log) ==
    \A i, j \in 1..Len(log) : i < j => Before(log[i], log[j])

\* C16: walk_always calls the callback exactly once on every pattern of the
\* tree, a pattern before its subpatterns and siblings left to right (for a
\* slice pattern: before, then the rest pattern, then after).
C16_WalkAlwaysVisitsAll ==
    op.fn = "walk_always" =>
      /\ Range(ret.visited) = PatIds(input.pat)
      /\ Len(ret.visited) = Cardinality(PatIds(input.pat))
      /\ InSourceOrder(ret.visited)

\* A slice pattern with a before, a rest and an after pattern was walked.
C16_Witness ==
    /\ op.fn = "walk_always"
    /\ input.pat.kind.tag = "Slice"
    /\ Len(input.pat.kind.before) = 1
    /\ Len(input.pat.kind.slice) = 1
    /\ Len(input.pat.kind.after) = 1
    /\ ret.visited = <<input.pat.hir_id, input.pat.kind.before[1].hir_id,
                       input.pat.kind.slice[1].hir_id, input.pat.kind.after[1].hir_id>>

\* C17: walk visits exactly the patterns none of whose ancestors got false from
\* the callback, in source order: a false prunes the subtree under the pattern
\* and nothing else, later patterns outside it are still visited.
C17_WalkPrunesSubtreeOnly ==
    op.fn = "walk" =>
      /\ Range(ret.visited) =
           {n \in PatIds(input.pat) :
              \A k \in 0..(Len(n) - 1) : SubSeq(n, 1, k) \in op.args[1]}
      /\ InSourceOrder(ret.visited)

\* The first of two subpatterns has a subpattern of its own and got false: it
\* was visited, what is under it was not, and its later sibling was.
C17_Witness ==
    /\ op.fn = "walk"
    /\ PatIds(input.pat) = {<<>>, <<1>>, <<1, 1>>, <<2>>}
    /\ <<1>> \notin op.args[1]
    /\ ret.visited = << <<>>, <<1>>, <<2>> >>

\* C18: walk_short visits the patterns in source order up to and including the
\* first one the callback returns false for and no pattern after it; it returns
\* true exactly when the callback returned true for every pattern of the tree.
C18_WalkShortStopsAtFirstFalse ==
    op.fn = "walk_short" =>
      /\ Range(ret.visited) =
           {n \in PatIds(input.pat) :
              \A m \in PatIds(input.pat) : Before(m, n) => m \in op.args[1]}
      /\ InSourceOrder(ret.visited)
      /\ ret.result = (PatIds(input.pat) \subseteq op.args[1])

\* Tuple(ps): the callback returned false for ps[0] and ps[1] was not visited.
C18_Witness ==
    /\ op.fn = "walk_short"
    /\ input.pat.kind.tag = "Tuple"
    /\ Len(input.pat.kind.pats) = 2
    /\ op.args[1] = PatIds(input.pat) \ {input.pat.kind.pats[1].hir_id}
    /\ ret.visited = <<input.pat.hir_id, input.pat.kind.pats[1].hir_id>>
    /\ ret.result = FALSE

\* The four segments of a range type: the root marker, std or core, ops, and a
\* name that begins with Range.
IsRangeSegments(segs) ==
    \E lib \in {StrStd, StrCore}, name \in Range(segs) :
      /\ segs = <<PathRoot, lib, StrOps, name>>
      /\ Len(name) >= 5
      /\ <<name[1], name[2], name[3], name[4], name[5]>> = StrRange

\* The last character of the source of the expression is known and is neither
\* a closing brace nor a closing parenthesis.
EndsLikeLiteral(snippet) ==
    snippet.tag = "Ok" /\ snippet.val[Len(snippet.val)] \notin {"}", ")"}

IsUnqualifiedResolved(qpath) == qpath.tag = "Resolved" /\ qpath.qself = "None"

\* C19: for a struct literal with an unqualified resolved path, is_range_literal
\* returns true exactly when the path has the four segments {{root}}, std or
\* core, ops and a name starting with Range, and the last source character of
\* the span is neither } nor ); so for {{root}}::core::ops::RangeInclusive it is
\* true when the source ends otherwise and false when it ends in }.
C19_StructRangeLiteral ==
    (/\ op.fn = "is_range_literal"
     /\ input.expr.kind.tag = "Struct"
     /\ IsUnqualifiedResolved(input.expr.kind.qpath)) =>
      /\ ret = (/\ IsRangeSegments(input.expr.kind.qpath.path.segments)
                /\ EndsLikeLiteral(input.snippet))
      /\ (input.expr.kind.qpath.path = ARangePath /\ input.snippet.tag = "Ok") =>
           ret = (input.snippet.val # <<"}">> /\ input.snippet.val # <<")">>)

\* The struct literal of {{root}}::core::ops::RangeInclusive whose source ends
\* in a digit is a range literal.
C19_Witness ==
    /\ op.fn = "is_range_literal"
    /\ input.expr.kind = [tag |-> "Struct", qpath |-> AResolvedQPath]
    /\ input.snippet = [tag |-> "Ok", val |-> <<"5">>]
    /\ ret = TRUE

\* A call of the associated function `new` of a type given by an unqualified
\* resolved path.
IsNewCallOnPathType(k) ==
    /\ k.tag = "Call"
    /\ k.func.kind.tag = "Path"
    /\ k.func.kind.qpath.tag = "TypeRelative"
    /\ k.func.kind.qpath.segment.ident = SymNew
    /\ k.func.kind.qpath.ty.kind.tag = "Path"
    /\ IsUnqualifiedResolved(k.func.kind.qpath.ty.kind.qpath)
    /\ IsRangeSegments(k.func.kind.qpath.ty.kind.qpath.path.segments)

\* C20: is_range_literal always returns a boolean; it returns false when the
\* snippet of the end point cannot be obtained, and for every expression that
\* is not a struct literal, a resolved path or a call of the associated
\* function `new` on a range type.
C20_DegradesToFalse ==
    op.fn = "is_range_literal" =>
      /\ ret \in BOOLEAN
      /\ input.snippet.tag = "Err" => ret = FALSE
      /\ ~(\/ input.expr.kind.tag = "Struct"
           \/ input.expr.kind.tag = "Path" /\ input.expr.kind.qpath.tag = "Resolved"
           \/ IsNewCallOnPathType(input.expr.kind)) => ret = FALSE

\* The struct literal of a range type whose source is not at hand.
C20_Witness ==
    /\ op.fn = "is_range_literal"
    /\ input.expr.kind = [tag |-> "Struct", qpath |-> AResolvedQPath]
    /\ input.snippet.tag = "Err"
    /\ ret = FALSE

ArgsOfKind(args, tag) == {i \in 1..Len(args) : args[i].tag = tag}

\* C21: own_counts returns the number of lifetime, type and const arguments in
\* args; the three counts sum to args.len() and bindings are not counted; two
\* type arguments and one lifetime argument give {lifetimes: 1, types: 2,
\* consts: 0}.
C21_OwnCounts ==
    op.fn = "own_counts" =>
      LET args == input.generic_args.args IN
      /\ ret = [lifetimes |-> Cardinality(ArgsOfKind(args, "Lifetime")),
                types |-> Cardinality(ArgsOfKind(args, "Type")),
                consts |-> Cardinality(ArgsOfKind(args, "Const"))]
      /\ ret.lifetimes + ret.types + ret.consts = Len(args)
      /\ (/\ Cardinality(ArgsOfKind(args, "Type")) = 2
          /\ Cardinality(ArgsOfKind(args, "Lifetime")) = 1
          /\ Len(args) = 3) =>
           ret = [lifetimes |-> 1, types |-> 2, consts |-> 0]

\* Two type arguments, one lifetime argument and a binding.
C21_Witness ==
    /\ op.fn = "own_counts"
    /\ Len(input.generic_args.args) = 3
    /\ Cardinality(ArgsOfKind(input.generic_args.args, "Type")) = 2
    /\ Cardinality(ArgsOfKind(input.generic_args.args, "Lifetime")) = 1
    /\ input.generic_args.bindings # <<>>
    /\ ret = [lifetimes |-> 1, types |-> 2, consts |-> 0]

\* C24: inputs returns the element types of the tuple type when the arguments
\* are parenthesized and the first type argument, lifetime and const arguments
\* skipped, is a tuple; when the arguments are not parenthesized, or have no
\* type argument, or the first type argument is not a tuple, it panics.
C24_InputsOrPanic ==
    op.fn = "inputs" =>
      LET ga == input.generic_args
          types == ArgsOfKind(ga.args, "Type")
      IN IF /\ ga.parenthesized
            /\ types # {}
            /\ ga.args[Min(types)].ty.kind.tag = "Tup"
           THEN ret = Ok(ga.args[Min(types)].ty.kind.tys)
           ELSE ret = InputsPanic

\* Parenthesized arguments: a lifetime, then a tuple of two types.
C24_Witness ==
    /\ op.fn = "inputs"
    /\ input.generic_args.parenthesized
    /\ Len(input.generic_args.args) >= 2
    /\ input.generic_args.args[1].tag = "Lifetime"
    /\ input.generic_args.args[2] = [tag |-> "Type", ty |-> TyTup(<<TyPath(1), TyPath(2)>>)]
    /\ ret = Ok(<<TyPath(1), TyPath(2)>>)

\* The item variant holds a Generics.
CarriesGenerics(k) == "generics" \in DOMAIN k

\* C22: ItemKind::generics returns none exactly for the variants that do not
\* carry a Generics, and the item's own Generics for every variant that carries
\* one, also when it has no parameters.
C22_GenericsOfEveryBearer ==
    op.fn = "generics" =>
      ret = IF CarriesGenerics(input.kind) THEN Some(input.kind.generics) ELSE None

\* C23: trait_def_id returns the DefId when the path resolved to a trait or a
\* trait alias; for every other resolution, Res::Err among them, the call ends
\* without a value.
C23_TraitDefIdOrFatal ==
    op.fn = "trait_def_id" =>
      LET res == input.trait_ref.path.res IN
      IF res.tag = "Def" /\ res.def_kind \in {"Trait", "TraitAlias"}
        THEN ret = Ok(res.did)
        ELSE /\ ret.tag \in {"fatal", "panic"}
             /\ res = ResErr => ret = FatalErrorRaised

\* trait_def_id was called on a path that did not resolve.
C23_Witness ==
    /\ op.fn = "trait_def_id"
    /\ input.trait_ref.path.res = ResErr
    /\ ret = FatalErrorRaised

RECURSIVE PatNodes(_)
PatNodes(q) == {q} \cup UNION {PatNodes(c) : c \in Subpatterns(q)}

C26_SyntacticProjectionOfAnyBase ==
    op.fn = "is_syntactic_place_expr" =>
      /\ IsProjection(input.expr) => ret = TRUE
      /\ \A x \in SubExprs(input.expr) : IsProjection(x) => is_syntactic_place_expr(x)

\* A field of a call result: the base is no place, the field access is one.
C26_Witness ==
    /\ op.fn = "is_syntactic_place_expr"
    /\ input.expr.kind.tag = "Field"
    /\ input.expr.kind.operand.kind.tag = "Call"
    /\ ~is_syntactic_place_expr(input.expr.kind.operand)
    /\ ret = TRUE

AllTrue(q) == PatIds(q)

\* C28: with a callback that always returns true, walk, walk_short and
\* walk_always visit the same sequence of patterns, and walk_short returns true.
C28_WalksAgreeWhenAlwaysTrue ==
    LET q == input.pat IN
    /\ (op.fn = "walk_short" /\ op.args[1] = AllTrue(q)) =>
         /\ ret.visited = walk(q, AllTrue(q))
         /\ ret.visited = walk_always(q)
         /\ ret.result = TRUE
    /\ (op.fn = "walk" /\ op.args[1] = AllTrue(q)) =>
         /\ ret.visited = walk_short(q, AllTrue(q)).visited
         /\ ret.visited = walk_always(q)
    /\ op.fn = "walk_always" =>
         /\ ret.visited = walk_short(q, AllTrue(q)).visited
         /\ ret.visited = walk(q, AllTrue(q))

\* walk_short with the always-true callback went through a tree of four
\* patterns and returned true.
C28_Witness ==
    /\ op.fn = "walk_short"
    /\ op.args[1] = PatIds(input.pat)
    /\ Len(ret.visited) = 4
    /\ ret.visited = walk_always(input.pat)
    /\ ret.result = TRUE

\* C29: is_place_expr is monotone in its predicate: an expression that is a
\* place under predicate p is a place under every predicate q that accepts all
\* that p accepts, and so under the always-true predicate of
\* is_syntactic_place_expr.
C29_MonotoneInPredicate ==
    (op.fn = "is_place_expr" /\ ret = TRUE) =>
      /\ \A q \in SUBSET SubExprs(input.expr) :
           op.args[1] \subseteq q => is_place_expr(input.expr, q)
      /\ is_syntactic_place_expr(input.expr)

\* A projection that is a place only because the predicate accepts its base.
C29_Witness ==
    /\ op.fn = "is_place_expr"
    /\ IsProjection(input.expr)
    /\ op.args[1] = {input.expr.kind.operand}
    /\ ~is_place_expr(input.expr, {})
    /\ ret = TRUE

\* C30: is_place_expr returns false for every DropTemps wrapper, whatever it
\* wraps and whatever the predicate.
C30_DropTempsIsNoPlace ==
    (op.fn = "is_place_expr" /\ input.expr.kind.tag = "DropTemps") => ret = FALSE

\* DropTemps around a local-variable path is no place although the path, which
\* peel_drop_temps returns, is one.
C30_Witness ==
    /\ op.fn = "is_place_expr"
    /\ input.expr.kind.tag = "DropTemps"
    /\ IsResolvedPathTo(input.expr.kind.operand, {ResLocal})
    /\ ret = FALSE
    /\ peel_drop_temps(input.expr) = input.expr.kind.operand
    /\ is_place_expr(peel_drop_temps(input.expr), op.args[1])

AllVisitedInPar == \A e \in AllEntries : \E v \in BagToSet(parVisits) : v.node = e

\* C27: par_visit_all_item_likes returns only after every entry of items,
\* trait_items and impl_items has been visited, and a call that has started
\* does return when every visitor invocation returns and the tasks are
\* scheduled fairly.
C27_ParReturnsAfterAllVisited ==
    /\ [][(pc = "par" /\ pc' = "idle") => AllVisitedInPar]_vars
    /\ (pc = "par") ~> (pc = "idle" /\ parRan)

\* The parallel traversal of a crate with two entries in every map has returned.
C27_Witness ==
    /\ parRan
    /\ pc = "idle"
    /\ EveryMapHasTwo
    /\ AllVisitedInPar
    /\ BagCardinality(parVisits) = 6

====
